---------------------------- MODULE Spec2Model ----------------------------
(***************************************************************************)
(* A model of src/ai_tools/manage_knowledge.py: one run of the command     *)
(* line tool.  The run is sequential; its nondeterminism is the command    *)
(* line given, the answers of the two remote services (Core's token        *)
(* endpoint and the KnowledgeTree API) and the decision of the approval    *)
(* gate.                                                                   *)
(*                                                                         *)
(* Every function of the file is an operator that takes the answers the    *)
(* remote services give to the requests it may issue and yields            *)
(*   ret : the value the function returns,                                 *)
(*   log : the requests it issued, in order,                               *)
(*   out : the lines it printed, in order.                                 *)
(* The actions are the statements of main() at the granularity of one      *)
(* function call.                                                          *)
(***************************************************************************)
EXTENDS Integers, Sequences, FiniteSets, TLC

(***************************************************************************)
(* Bounds of the model.                                                    *)
(***************************************************************************)
\* how many distinct node identifiers the remote service may hand out
MaxIds == 2

(***************************************************************************)
(* Strings are sequences of characters, so that startswith and emptiness   *)
(* are computed and not assumed.                                           *)
(***************************************************************************)
Digit == <<"1", "2", "3", "4", "5", "6", "7", "8", "9">>

IdOf(n) == <<"n", "-", Digit[n]>>

ServerIds == {IdOf(n) : n \in 1..MaxIds}

SLASH == <<"/">>

ROOT == <<"r", "o", "o", "t">>

StartsWith(s, c) == Len(s) > 0 /\ s[1] = c

(***************************************************************************)
(* Python values: None, a str, a bool, and the containers of which only    *)
(* the truth value is read (a list of results, a JSON object).  Unset is   *)
(* a local that has not been assigned.                                     *)
(***************************************************************************)
Unset == [t |-> "unset", s |-> <<>>, b |-> FALSE]

None == [t |-> "none", s |-> <<>>, b |-> FALSE]

Str(s) == [t |-> "str", s |-> s, b |-> FALSE]

Bool(b) == [t |-> "bool", s |-> <<>>, b |-> b]

List(nonempty) == [t |-> "list", s |-> <<>>, b |-> nonempty]

Dict(nonempty) == [t |-> "dict", s |-> <<>>, b |-> nonempty]

False == Bool(FALSE)

True == Bool(TRUE)

\* Python's truth value of v, as `if v:` and `if not v:` read it
Truthy(v) ==
    CASE v.t = "str" -> Len(v.s) > 0
      [] v.t \in {"bool", "list", "dict"} -> v.b
      [] OTHER -> FALSE

(***************************************************************************)
(* The answers of the remote services.  status 0 stands for a transport    *)
(* exception raised by requests (connection error, timeout).               *)
(***************************************************************************)
\* POST {core}/service-token; token None: the body has no "token" key
TokenResponses ==
    {[status |-> 0, token |-> None], [status |-> 500, token |-> None],
     [status |-> 200, token |-> None], [status |-> 200, token |-> Str(<<>>)],
     [status |-> 200, token |-> Str(<<"t", "k">>)]}

\* the JSON object of a browse answer: {} is empty; current_node may be
\* missing (the root listing) or lack an id
NoBrowseJson == [empty |-> TRUE, has_current_node |-> FALSE, id |-> None]

BrowseJsons ==
    {NoBrowseJson,
     [empty |-> FALSE, has_current_node |-> FALSE, id |-> None],
     [empty |-> FALSE, has_current_node |-> TRUE, id |-> None],
     [empty |-> FALSE, has_current_node |-> TRUE, id |-> Str(<<>>)]}
    \cup {[empty |-> FALSE, has_current_node |-> TRUE, id |-> Str(i)] : i \in ServerIds}

\* GET {kt}/api/browse
BrowseResponses ==
    {[status |-> 0, json |-> NoBrowseJson], [status |-> 404, json |-> NoBrowseJson]}
    \cup {[status |-> 200, json |-> j] : j \in BrowseJsons}

\* POST {kt}/api/node: 200 + {id}, 409 + {existing_id}
CreateResponses ==
    {[status |-> 0, id |-> None, existing_id |-> None],
     [status |-> 500, id |-> None, existing_id |-> None],
     [status |-> 200, id |-> None, existing_id |-> None],
     [status |-> 409, id |-> None, existing_id |-> None]}
    \cup {[status |-> 200, id |-> Str(i), existing_id |-> None] : i \in ServerIds}
    \cup {[status |-> 409, id |-> None, existing_id |-> Str(i)] : i \in ServerIds}

\* PUT and DELETE {kt}/api/node/{id}
StatusResponses == {[status |-> 0], [status |-> 200], [status |-> 500]}

\* GET {kt}/api/node/{id}
DetailsResponses ==
    {[status |-> 0, json |-> Dict(FALSE)], [status |-> 404, json |-> Dict(FALSE)],
     [status |-> 200, json |-> Dict(FALSE)], [status |-> 200, json |-> Dict(TRUE)]}

\* GET {kt}/api/search
SearchResponses ==
    {[status |-> 0, results |-> List(FALSE)], [status |-> 500, results |-> List(FALSE)],
     [status |-> 200, results |-> List(FALSE)], [status |-> 200, results |-> List(TRUE)]}

(***************************************************************************)
(* The record of a run: the requests and approval prompts issued (who      *)
(* issued them, for which path or identifier, the status answered and the  *)
(* value the answer carried) and the lines printed.                        *)
(***************************************************************************)
Ev(op, by, arg, status, val) ==
    [op |-> op, by |-> by, arg |-> arg, status |-> status, val |-> val]

Msg(text, val) == [text |-> text, val |-> val]

Result(ret, lg, ot) == [ret |-> ret, log |-> lg, out |-> ot]

NoTokenMsg == Msg("ERROR: Could not get service token for KnowledgeTree", <<>>)

ExcMsg == Msg("ERROR: {e}", <<>>)

(***************************************************************************)
(* get_service_token, called by function `by`; r is Core's answer.         *)
(* response.json()["token"] raises when the body has no token.             *)
(***************************************************************************)
GetServiceToken(by, r) ==
    LET Go(raised) ==
            LET Return(tok) ==
                    Result(tok,
                           <<Ev("POST /service-token", by, <<>>, r.status, tok)>>,
                           IF raised
                           THEN <<Msg("ERROR: Could not get service token: {e}", <<>>)>>
                           ELSE <<>>)
            IN  Return(IF r.status = 200 /\ ~raised THEN r.token ELSE None)
    IN  Go(r.status = 0 \/ (r.status = 200 /\ r.token.t = "none"))

(***************************************************************************)
(* search_knowledge                                                        *)
(***************************************************************************)
SearchKnowledge(query, tr, sr) ==
    LET Go(tok, ev) ==
            IF ~Truthy(tok.ret)
            THEN Result(List(FALSE), tok.log, tok.out \o <<NoTokenMsg>>)
            ELSE IF sr.status = 0
            THEN Result(List(FALSE), tok.log \o <<ev>>, tok.out \o <<ExcMsg>>)
            ELSE IF sr.status = 200
            THEN Result(sr.results, tok.log \o <<ev>>, tok.out)
            ELSE Result(List(FALSE), tok.log \o <<ev>>,
                        tok.out \o <<Msg("ERROR: Search failed: {status}", <<>>)>>)
    IN  Go(GetServiceToken("search_knowledge", tr),
           Ev("GET /api/search", "search_knowledge", query, sr.status, None))

(***************************************************************************)
(* browse_knowledge: ret is None or the JSON object answered, kept in json *)
(***************************************************************************)
CurrentNodeId(json) == IF json.has_current_node THEN json.id ELSE None

BrowseResult(isNone, json, lg, ot) ==
    [ret |-> IF isNone THEN None ELSE Dict(~json.empty), json |-> json,
     log |-> lg, out |-> ot]

BrowseKnowledge(path, tr, br) ==
    LET Go(tok, ev) ==
            IF ~Truthy(tok.ret)
            THEN BrowseResult(TRUE, NoBrowseJson, tok.log, tok.out \o <<NoTokenMsg>>)
            ELSE IF br.status = 0
            THEN BrowseResult(TRUE, NoBrowseJson, tok.log \o <<ev>>, tok.out \o <<ExcMsg>>)
            ELSE IF br.status = 200
            THEN BrowseResult(FALSE, br.json, tok.log \o <<ev>>, tok.out)
            ELSE BrowseResult(TRUE, NoBrowseJson, tok.log \o <<ev>>,
                              tok.out \o <<Msg("ERROR: Browse failed: {status}", <<>>)>>)
    IN  Go(GetServiceToken("browse_knowledge", tr),
           Ev("GET /api/browse", "browse_knowledge", path, br.status,
              IF br.status = 200 THEN CurrentNodeId(br.json) ELSE None))

(***************************************************************************)
(* get_node_id_from_path: the Path Resolver.  tr and br are the answers    *)
(* to the token request and the browse request of browse_knowledge.        *)
(***************************************************************************)
\* a resolver that knows "/" but not the literal root marker
IsRootPathSlashOnly(path) == path = SLASH

IsRootPath(path) == path = SLASH \/ path = ROOT

\* a resolver that asks twice: it browses again after the first answer
GetNodeIdFromPathTwice(path, tr, br) ==
    LET Go(b) ==
            IF b.json.has_current_node /\ Truthy(b.json.id)
            THEN Result(b.json.id, b.log \o b.log, b.out)
            ELSE Result(None, b.log \o b.log, b.out)
    IN  IF IsRootPath(path)
        THEN Result(Str(ROOT), <<>>, <<>>)
        ELSE Go(BrowseKnowledge(path, tr, br))

GetNodeIdFromPath(path, tr, br) ==
    LET Go(b) ==
            IF ~Truthy(b.ret)
            THEN Result(None, b.log,
                        b.out \o <<Msg("ERROR: Could not browse to path", path)>>)
            ELSE IF b.json.has_current_node /\ Truthy(b.json.id)
            THEN Result(b.json.id, b.log, b.out)
            ELSE Result(None, b.log,
                        b.out \o <<Msg("ERROR: Path exists but no node ID returned", path)>>)
    IN  IF IsRootPath(path)
        THEN Result(Str(ROOT), <<>>, <<>>)
        ELSE Go(BrowseKnowledge(path, tr, br))

(***************************************************************************)
(* create_node.  The parts below are the branches of its try block: the    *)
(* follow-up content update, the 409 branch, and the creation request.     *)
(* lg and ot are the requests issued and the lines printed so far.         *)
(***************************************************************************)
\* lines 194-213: after a 200 with an id; ur answers the PUT
CreateContent(new_id, content, is_folder, ur, lg, ot) ==
    LET Go(lg1, ot1) ==
            IF ur.status = 0
            THEN Result(False, lg1, ot1 \o <<ExcMsg>>)
            ELSE IF ur.status # 200
            THEN Result(new_id, lg1,
                        ot1 \o <<Msg("ERROR: Node created but content update failed", <<>>),
                                 Msg("created, but you'll need to add content manually", new_id.s)>>)
            ELSE Result(new_id, lg1, ot1 \o <<Msg("Content added successfully", <<>>)>>)
    IN  IF ~is_folder /\ Truthy(content)
        THEN Go(lg \o <<Ev("PUT /api/node/{id}", "create_node", new_id.s, ur.status, None)>>,
                ot \o <<Msg("Adding content to node", new_id.s)>>)
        ELSE Result(new_id, lg, ot)

\* a 409 branch that goes on as an update of the existing node
CreateConflictRetry(parent_path, cr, lg, ot) ==
    Result(cr.existing_id,
           lg \o <<Ev("PUT /api/node/{id}", "create_node", cr.existing_id.s, 200, None)>>,
           ot \o <<Msg("Existing node ID", cr.existing_id.s)>>)

\* lines 214-220: the duplicate-name answer
CreateConflict(parent_path, cr, lg, ot) ==
    Result(False, lg,
           ot \o <<Msg("ERROR: A node with that name already exists in", parent_path),
                   Msg("Existing node ID", cr.existing_id.s),
                   Msg("Use the 'update' command to modify it instead, or delete it first", <<>>)>>)

\* lines 173-227: the creation request, parent_id resolved
CreatePost(parent_path, parent_id, content, is_folder, cr, ur, lg, ot) ==
    LET Go(lg1) ==
            IF cr.status = 0
            THEN Result(False, lg1, ot \o <<ExcMsg>>)
            ELSE IF cr.status = 200
            THEN IF ~Truthy(cr.id)
                 THEN Result(False, lg1,
                             ot \o <<Msg("ERROR: Node created but no ID returned", <<>>)>>)
                 ELSE CreateContent(cr.id, content, is_folder, ur, lg1, ot)
            ELSE IF cr.status = 409
            THEN CreateConflict(parent_path, cr, lg1, ot)
            ELSE Result(False, lg1, ot \o <<Msg("ERROR: Failed to create node", <<>>)>>)
    IN  Go(lg \o <<Ev("POST /api/node", "create_node", parent_id.s, cr.status,
                      IF cr.status = 200 THEN cr.id
                      ELSE IF cr.status = 409 THEN cr.existing_id ELSE None)>>)

\* what create_node returns, with the parent_id it resolved
Created(r, parent_id) ==
    [ret |-> r.ret, log |-> r.log, out |-> r.out, parent_id |-> parent_id]

\* a create_node that posts although the parent did not resolve
CreateNodeIgnoresParent(parent_path, content, is_folder, tr, btr, br, cr, ur) ==
    LET Go(tok) ==
            LET Resolved(res) ==
                    Created(CreatePost(parent_path, res.ret, content, is_folder, cr, ur,
                                       tok.log \o res.log, tok.out \o res.out),
                            res.ret)
            IN  IF ~Truthy(tok.ret)
                THEN Created(Result(False, tok.log, tok.out \o <<NoTokenMsg>>), Unset)
                ELSE Resolved(GetNodeIdFromPath(parent_path, btr, br))
    IN  Go(GetServiceToken("create_node", tr))

\* lines 155-171, then the try block
CreateNode(parent_path, content, is_folder, tr, btr, br, cr, ur) ==
    LET Go(tok) ==
            LET Resolved(res) ==
                    IF ~Truthy(res.ret)
                    THEN Created(Result(False, tok.log \o res.log,
                                        tok.out \o res.out
                                          \o <<Msg("ERROR: Could not find parent path", parent_path)>>),
                                 res.ret)
                    ELSE Created(CreatePost(parent_path, res.ret, content, is_folder, cr, ur,
                                            tok.log \o res.log, tok.out \o res.out),
                                 res.ret)
            IN  IF ~Truthy(tok.ret)
                THEN Created(Result(False, tok.log, tok.out \o <<NoTokenMsg>>), Unset)
                ELSE Resolved(GetNodeIdFromPath(parent_path, btr, br))
    IN  Go(GetServiceToken("create_node", tr))

(***************************************************************************)
(* update_node                                                             *)
(***************************************************************************)
UpdateNode(node_id, title, content, tr, ur) ==
    LET Go(tok, update_data, ev) ==
            IF ~Truthy(tok.ret)
            THEN Result(False, tok.log, tok.out \o <<NoTokenMsg>>)
            ELSE IF update_data = {}
            THEN Result(False, tok.log,
                        tok.out \o <<Msg("ERROR: No updates specified", <<>>)>>)
            ELSE IF ur.status = 0
            THEN Result(False, tok.log \o <<ev>>, tok.out \o <<ExcMsg>>)
            ELSE IF ur.status = 200
            THEN Result(True, tok.log \o <<ev>>, tok.out)
            ELSE Result(False, tok.log \o <<ev>>,
                        tok.out \o <<Msg("ERROR: Failed to update node", <<>>)>>)
    IN  Go(GetServiceToken("update_node", tr),
           {k \in {"name", "content"} :
               \/ k = "name" /\ Truthy(title)
               \/ k = "content" /\ Truthy(content)},
           Ev("PUT /api/node/{id}", "update_node", node_id, ur.status, None))

(***************************************************************************)
(* delete_node                                                             *)
(***************************************************************************)
\* a delete_node that does not look at the token it got
DeleteNodeNoTokenCheck(node_id, tr, dr) ==
    LET Go(tok, ev) ==
            IF dr.status = 200
            THEN Result(True, tok.log \o <<ev>>, tok.out)
            ELSE Result(False, tok.log \o <<ev>>,
                        tok.out \o <<Msg("ERROR: Failed to delete node", <<>>)>>)
    IN  Go(GetServiceToken("delete_node", tr),
           Ev("DELETE /api/node/{id}", "delete_node", node_id, dr.status, None))

DeleteNode(node_id, tr, dr) ==
    LET Go(tok, ev) ==
            IF ~Truthy(tok.ret)
            THEN Result(False, tok.log, tok.out \o <<NoTokenMsg>>)
            ELSE IF dr.status = 0
            THEN Result(False, tok.log \o <<ev>>, tok.out \o <<ExcMsg>>)
            ELSE IF dr.status = 200
            THEN Result(True, tok.log \o <<ev>>, tok.out)
            ELSE Result(False, tok.log \o <<ev>>,
                        tok.out \o <<Msg("ERROR: Failed to delete node", <<>>)>>)
    IN  Go(GetServiceToken("delete_node", tr),
           Ev("DELETE /api/node/{id}", "delete_node", node_id, dr.status, None))

(***************************************************************************)
(* get_node_details: ret is None or the JSON object answered               *)
(***************************************************************************)
GetNodeDetails(node_id, tr, gr) ==
    LET Go(tok, ev) ==
            IF ~Truthy(tok.ret)
            THEN Result(None, tok.log, tok.out \o <<NoTokenMsg>>)
            ELSE IF gr.status = 0
            THEN Result(None, tok.log \o <<ev>>, tok.out \o <<ExcMsg>>)
            ELSE IF gr.status = 200
            THEN Result(gr.json, tok.log \o <<ev>>, tok.out)
            ELSE Result(None, tok.log \o <<ev>>,
                        tok.out \o <<Msg("ERROR: Failed to get node", <<>>)>>)
    IN  Go(GetServiceToken("get_node_details", tr),
           Ev("GET /api/node/{id}", "get_node_details", node_id, gr.status, None))

(***************************************************************************)
(* The command line: argparse's args.  target is the positional argument   *)
(* (query, path, parent_path or node_id); --title and --content of update  *)
(* are None when not given, --content of create defaults to ''.            *)
(***************************************************************************)
Commands == {"", "search", "browse", "create", "create-folder", "update", "delete"}

Targets ==
    {SLASH, ROOT, <<"/", "I", "T">>, <<"/", "I", "T", "/", "W">>, IdOf(1)}

Given == Str(<<"x">>)

ArgsOf(c) ==
    CASE c = "" -> {[target |-> <<>>, title |-> None, content |-> None]}
      [] c \in {"search", "browse", "delete"} ->
            {[target |-> t, title |-> None, content |-> None] : t \in Targets}
      [] c = "create" ->
            {[target |-> t, title |-> Given, content |-> k] :
                t \in Targets, k \in {Str(<<>>), Given}}
      [] c = "create-folder" ->
            {[target |-> t, title |-> Given, content |-> Str(<<>>)] : t \in Targets}
      [] c = "update" ->
            {[target |-> t, title |-> n, content |-> k] :
                t \in Targets, n \in {None, Str(<<>>), Given}, k \in {None, Str(<<>>), Given}}

VARIABLES
    cmd,        \* args.command
    args,       \* the other arguments
    pc,         \* where main() is: main, details, approval, run, done
    node_id,    \* update's local node_id
    node,       \* the result of get_node_details
    approved,   \* the result of request_approval
    resolved,   \* what get_node_id_from_path returned, Unset if never called
    ret,        \* what the command's operation returned
    log,        \* the requests and approval prompts issued so far
    out,        \* the lines printed so far
    exitCode    \* the process's exit status

vars == <<cmd, args, pc, node_id, node, approved, resolved, ret, log, out, exitCode>>

Init ==
    /\ cmd \in Commands
    /\ args \in ArgsOf(cmd)
    /\ pc = "main"
    /\ node_id = Unset
    /\ node = Unset
    /\ approved = Unset
    /\ resolved = Unset
    /\ ret = Unset
    /\ log = <<>>
    /\ out = <<>>
    /\ exitCode = 0

\* sys.exit(1) after printing ot
Exit1(ot) ==
    /\ out' = out \o ot
    /\ exitCode' = 1
    /\ pc' = "done"

\* request_approval: the gate's prompt and its decision
Approval(decision) == Ev("request_approval", "main", <<>>, 0, Bool(decision))

DeniedMsg == Msg("User denied the change", <<>>)

\* lines 364-366
NoCommand ==
    /\ pc = "main" /\ cmd = ""
    /\ Exit1(<<Msg("usage", <<>>)>>)
    /\ UNCHANGED <<cmd, args, node_id, node, approved, resolved, ret, log>>

\* lines 369-382
Search ==
    /\ pc = "main" /\ cmd = "search"
    /\ \E tr \in TokenResponses, sr \in SearchResponses :
        LET r == SearchKnowledge(args.target, tr, sr)
        IN  /\ ret' = r.ret
            /\ log' = log \o r.log
            /\ out' = out \o <<Msg("Searching for", args.target)>> \o r.out
                        \o <<IF Truthy(r.ret) THEN Msg("Found results", <<>>)
                                              ELSE Msg("No results found", <<>>)>>
    /\ pc' = "done"
    /\ UNCHANGED <<cmd, args, node_id, node, approved, resolved, exitCode>>

\* lines 384-401
Browse ==
    /\ pc = "main" /\ cmd = "browse"
    /\ \E tr \in TokenResponses, br \in BrowseResponses :
        LET r == BrowseKnowledge(args.target, tr, br)
        IN  /\ ret' = r.ret
            /\ log' = log \o r.log
            /\ out' = out \o <<Msg("Browsing", args.target)>> \o r.out
                        \o <<IF Truthy(r.ret) THEN Msg("Current", <<>>)
                                              ELSE Msg("Path not found", <<>>)>>
    /\ pc' = "done"
    /\ UNCHANGED <<cmd, args, node_id, node, approved, resolved, exitCode>>

\* lines 403-417
CreateApproval ==
    /\ pc = "main" /\ cmd = "create"
    /\ \E d \in BOOLEAN :
        /\ approved' = Bool(d)
        /\ log' = log \o <<Approval(d)>>
        /\ IF ~d THEN Exit1(<<DeniedMsg>>)
                 ELSE pc' = "run" /\ UNCHANGED <<out, exitCode>>
    /\ UNCHANGED <<cmd, args, node_id, node, resolved, ret>>

\* lines 419-428
CreateRun ==
    /\ pc = "run" /\ cmd = "create"
    /\ \E tr \in TokenResponses, btr \in TokenResponses, br \in BrowseResponses,
          cr \in CreateResponses, ur \in StatusResponses :
        \E r \in {CreateNode(args.target, args.content, FALSE, tr, btr, br, cr, ur)} :
        LET ot == <<Msg("Creating article", args.target)>> \o r.out
        IN  /\ ret' = r.ret
            /\ resolved' = r.parent_id
            /\ log' = log \o r.log
            /\ IF Truthy(r.ret)
               THEN /\ out' = out \o ot \o <<Msg("Article created successfully", r.ret.s)>>
                    /\ pc' = "done"
                    /\ UNCHANGED exitCode
               ELSE Exit1(ot \o <<Msg("Failed to create article", <<>>)>>)
    /\ UNCHANGED <<cmd, args, node_id, node, approved>>

\* lines 430-443
CreateFolderApproval ==
    /\ pc = "main" /\ cmd = "create-folder"
    /\ \E d \in BOOLEAN :
        /\ approved' = Bool(d)
        /\ log' = log \o <<Approval(d)>>
        /\ IF ~d THEN Exit1(<<DeniedMsg>>)
                 ELSE pc' = "run" /\ UNCHANGED <<out, exitCode>>
    /\ UNCHANGED <<cmd, args, node_id, node, resolved, ret>>

\* lines 445-454: content is create_node's default ""
CreateFolderRun ==
    /\ pc = "run" /\ cmd = "create-folder"
    /\ \E tr \in TokenResponses, btr \in TokenResponses, br \in BrowseResponses,
          cr \in CreateResponses, ur \in StatusResponses :
        \E r \in {CreateNode(args.target, Str(<<>>), TRUE, tr, btr, br, cr, ur)} :
        LET ot == <<Msg("Creating folder", args.target)>> \o r.out
        IN  /\ ret' = r.ret
            /\ resolved' = r.parent_id
            /\ log' = log \o r.log
            /\ IF Truthy(r.ret)
               THEN /\ out' = out \o ot \o <<Msg("Folder created successfully", r.ret.s)>>
                    /\ pc' = "done"
                    /\ UNCHANGED exitCode
               ELSE Exit1(ot \o <<Msg("Failed to create folder", <<>>)>>)
    /\ UNCHANGED <<cmd, args, node_id, node, approved>>

\* an update that never takes its argument for a path
IsPathNever(id) == FALSE

\* line 459: update treats its argument as a path when it starts with "/"
IsPath(id) == StartsWith(id, "/")

\* lines 456-466
UpdateResolve ==
    /\ pc = "main" /\ cmd = "update"
    /\ IF IsPath(args.target)
       THEN \E tr \in TokenResponses, br \in BrowseResponses :
            LET r == GetNodeIdFromPath(args.target, tr, br)
                ot == <<Msg("Resolving path", args.target)>> \o r.out
            IN  /\ resolved' = r.ret
                /\ node_id' = r.ret
                /\ log' = log \o r.log
                /\ IF ~Truthy(r.ret)
                   THEN Exit1(ot \o <<Msg("ERROR: Could not find node at path", args.target)>>)
                   ELSE /\ out' = out \o ot \o <<Msg("Found node ID", r.ret.s)>>
                        /\ pc' = "details"
                        /\ UNCHANGED exitCode
       ELSE /\ node_id' = Str(args.target)
            /\ pc' = "details"
            /\ UNCHANGED <<resolved, log, out, exitCode>>
    /\ UNCHANGED <<cmd, args, node, approved, ret>>

\* an update that asks for approval although the details fetch failed
UpdateDetailsIgnored ==
    /\ pc = "details" /\ cmd = "update"
    /\ \E tr \in TokenResponses, gr \in DetailsResponses :
        \E r \in {GetNodeDetails(node_id.s, tr, gr)} :
            /\ node' = r.ret
            /\ log' = log \o r.log
            /\ out' = out \o r.out
    /\ pc' = "approval"
    /\ UNCHANGED <<cmd, args, node_id, approved, resolved, ret, exitCode>>

\* lines 468-472
UpdateDetails ==
    /\ pc = "details" /\ cmd = "update"
    /\ \E tr \in TokenResponses, gr \in DetailsResponses :
        LET r == GetNodeDetails(node_id.s, tr, gr)
        IN  /\ node' = r.ret
            /\ log' = log \o r.log
            /\ IF ~Truthy(r.ret)
               THEN Exit1(r.out \o <<Msg("ERROR: Node not found", node_id.s)>>)
               ELSE /\ out' = out \o r.out
                    /\ pc' = "approval"
                    /\ UNCHANGED exitCode
    /\ UNCHANGED <<cmd, args, node_id, approved, resolved, ret>>

\* lines 474-493
UpdateApproval ==
    /\ pc = "approval" /\ cmd = "update"
    /\ \E d \in BOOLEAN :
        /\ approved' = Bool(d)
        /\ log' = log \o <<Approval(d)>>
        /\ IF ~d THEN Exit1(<<DeniedMsg>>)
                 ELSE pc' = "run" /\ UNCHANGED <<out, exitCode>>
    /\ UNCHANGED <<cmd, args, node_id, node, resolved, ret>>

\* lines 495-500
UpdateRun ==
    /\ pc = "run" /\ cmd = "update"
    /\ \E tr \in TokenResponses, ur \in StatusResponses :
        LET r == UpdateNode(node_id.s, args.title, args.content, tr, ur)
            ot == <<Msg("Updating node", node_id.s)>> \o r.out
        IN  /\ ret' = r.ret
            /\ log' = log \o r.log
            /\ IF Truthy(r.ret)
               THEN /\ out' = out \o ot \o <<Msg("Article updated successfully", <<>>)>>
                    /\ pc' = "done"
                    /\ UNCHANGED exitCode
               ELSE Exit1(ot \o <<Msg("Failed to update article", <<>>)>>)
    /\ UNCHANGED <<cmd, args, node_id, node, approved, resolved>>

\* lines 502-507: args.node_id is used as it was given
DeleteDetails ==
    /\ pc = "main" /\ cmd = "delete"
    /\ \E tr \in TokenResponses, gr \in DetailsResponses :
        LET r == GetNodeDetails(args.target, tr, gr)
        IN  /\ node' = r.ret
            /\ log' = log \o r.log
            /\ IF ~Truthy(r.ret)
               THEN Exit1(r.out \o <<Msg("ERROR: Node not found", args.target)>>)
               ELSE /\ out' = out \o r.out
                    /\ pc' = "approval"
                    /\ UNCHANGED exitCode
    /\ UNCHANGED <<cmd, args, node_id, approved, resolved, ret>>

\* a delete that goes on whatever the gate decided
DeleteApprovalIgnored ==
    /\ pc = "approval" /\ cmd = "delete"
    /\ \E d \in BOOLEAN :
        /\ approved' = Bool(d)
        /\ log' = log \o <<Approval(d)>>
        /\ pc' = "run"
        /\ UNCHANGED <<out, exitCode>>
    /\ UNCHANGED <<cmd, args, node_id, node, resolved, ret>>

\* lines 509-522
DeleteApproval ==
    /\ pc = "approval" /\ cmd = "delete"
    /\ \E d \in BOOLEAN :
        /\ approved' = Bool(d)
        /\ log' = log \o <<Approval(d)>>
        /\ IF ~d THEN Exit1(<<DeniedMsg>>)
                 ELSE pc' = "run" /\ UNCHANGED <<out, exitCode>>
    /\ UNCHANGED <<cmd, args, node_id, node, resolved, ret>>

\* lines 524-529
DeleteRun ==
    /\ pc = "run" /\ cmd = "delete"
    /\ \E tr \in TokenResponses, dr \in StatusResponses :
        LET r == DeleteNode(args.target, tr, dr)
            ot == <<Msg("Deleting node", args.target)>> \o r.out
        IN  /\ ret' = r.ret
            /\ log' = log \o r.log
            /\ IF Truthy(r.ret)
               THEN /\ out' = out \o ot \o <<Msg("Article deleted successfully", <<>>)>>
                    /\ pc' = "done"
                    /\ UNCHANGED exitCode
               ELSE Exit1(ot \o <<Msg("Failed to delete article", <<>>)>>)
    /\ UNCHANGED <<cmd, args, node_id, node, approved, resolved>>

Next ==
    \/ NoCommand
    \/ Search
    \/ Browse
    \/ CreateApproval
    \/ CreateRun
    \/ CreateFolderApproval
    \/ CreateFolderRun
    \/ UpdateResolve
    \/ UpdateDetails
    \/ UpdateApproval
    \/ UpdateRun
    \/ DeleteDetails
    \/ DeleteApproval
    \/ DeleteRun

Spec == Init /\ [][Next]_vars

(***************************************************************************)
(* The properties.                                                         *)
(***************************************************************************)
Approvals == {i \in DOMAIN log : log[i].op = "request_approval"}

IsMutating(e) ==
    e.op \in {"POST /api/node", "PUT /api/node/{id}", "DELETE /api/node/{id}"}

Mutations == {i \in DOMAIN log : IsMutating(log[i])}

Requests == {i \in DOMAIN log : log[i].op # "request_approval"}

\* the requests that name a node in their URL
NodeRequests ==
    {i \in DOMAIN log :
        log[i].op \in {"GET /api/node/{id}", "PUT /api/node/{id}", "DELETE /api/node/{id}"}}

Printed(text) == \E i \in DOMAIN out : out[i].text = text

PrintedWith(text, val) == \E i \in DOMAIN out : out[i] = Msg(text, val)

Creating == cmd \in {"create", "create-folder"}

\* C1: in a run of create, create-folder, update or delete the approval
\* gate is invoked at most once, every mutating request (POST /api/node,
\* PUT or DELETE /api/node/{id}) comes after the one invocation of the gate
\* and that invocation was granted; after a denial there is no mutating
\* request, the run is over and its exit status is 1.
ApprovalBeforeMutation ==
    /\ Cardinality(Approvals) <= 1
    /\ Mutations # {} =>
          /\ cmd \in {"create", "create-folder", "update", "delete"}
          /\ Cardinality(Approvals) = 1
          /\ \A j \in Approvals :
                /\ log[j].val = True
                /\ \A i \in Mutations : j < i
    /\ approved = False => Mutations = {} /\ pc = "done" /\ exitCode = 1

\* C1 witness: a delete whose gate granted and whose DELETE was issued
ApprovedDeleteIssued ==
    /\ cmd = "delete" /\ pc = "done" /\ approved = True
    /\ \E i \in Mutations : log[i].op = "DELETE /api/node/{id}" /\ log[i].status = 200

\* C2 (as claimed): an update given neither a title nor content that ends
\* in "No updates specified" has issued no request at all.
UpdateValidatedBeforeNetwork ==
    (/\ cmd = "update" /\ pc = "done"
     /\ ~Truthy(args.title) /\ ~Truthy(args.content)
     /\ Printed("ERROR: No updates specified"))
        => Requests = {} /\ exitCode = 1

\* a run that failed: no command, a denial, a validation failure, or a
\* request answered by anything but 200
RunFailed ==
    \/ cmd = ""
    \/ approved = False
    \/ Printed("ERROR: No updates specified")
    \/ \E i \in Requests : log[i].status # 200

\* C3 (as claimed): when the run is over the exit status is 1 if it failed
\* (validation, denial, or a request that failed), for the read-only
\* commands too, and 0 if nothing failed and the operation returned a result.
ExitStatusReflectsOutcome ==
    pc = "done" =>
        /\ RunFailed => exitCode = 1
        /\ (~RunFailed /\ Truthy(ret)) => exitCode = 0

\* C4 (as claimed): a create of an article with content whose POST answered
\* 200 with an id and whose follow-up PUT failed returns that id, reports
\* the content update as failed and does not report the creation as failed.
PartialSuccessSurfaced ==
    \A i \in DOMAIN log, j \in DOMAIN log :
        (/\ cmd = "create" /\ pc = "done"
         /\ log[i].op = "POST /api/node" /\ log[i].status = 200 /\ Truthy(log[i].val)
         /\ log[j].op = "PUT /api/node/{id}" /\ log[j].status # 200)
            => /\ ret = log[i].val
               /\ Printed("ERROR: Node created but content update failed")
               /\ ~Printed("Failed to create article")

\* C5 (as claimed): in update and in delete an argument that begins with
\* "/" has been resolved, and every request that names a node names the
\* resolved identifier.
PathResolvedForUpdateAndDelete ==
    (cmd \in {"update", "delete"} /\ StartsWith(args.target, "/")) =>
        \A i \in NodeRequests : Truthy(resolved) /\ log[i].arg = resolved.s

\* C5 (amended): update resolves an argument that begins with "/" and names
\* the resolved identifier in its details fetch and its PUT, and names any
\* other argument as given; delete never resolves: it issues no browse
\* request and names its argument as given in its details fetch and DELETE.
UpdateResolvesDeleteDoesNot ==
    /\ (cmd = "update" /\ StartsWith(args.target, "/")) =>
          \A i \in NodeRequests : Truthy(resolved) /\ log[i].arg = resolved.s
    /\ (cmd = "update" /\ ~StartsWith(args.target, "/")) =>
          /\ resolved = Unset
          /\ \A i \in NodeRequests : log[i].arg = args.target
    /\ cmd = "delete" =>
          /\ resolved = Unset
          /\ \A i \in Requests : log[i].by # "browse_knowledge"
          /\ \A i \in NodeRequests : log[i].arg = args.target

\* C5 witness: an update by path whose PUT named the identifier browse gave
UpdateByPathIssued ==
    /\ cmd = "update" /\ args.target = <<"/", "I", "T">> /\ pc = "done"
    /\ resolved = Str(IdOf(2))
    /\ \E i \in Mutations : log[i].arg = IdOf(2) /\ log[i].status = 200

\* the parent path of a create did not resolve: browse_knowledge got no
\* token, or its browse request failed or answered no current_node id
ParentUnresolved ==
    \E i \in Requests : log[i].by = "browse_knowledge" /\ ~Truthy(log[i].val)

\* C6: a create or create-folder whose parent path did not resolve has
\* issued no POST /api/node, its last request is one of the resolution
\* attempt, it printed "Could not find parent path", create_node returned
\* False and the exit status is 1.
ParentNotFoundAborts ==
    (Creating /\ ParentUnresolved) =>
        /\ \A i \in Requests : log[i].op # "POST /api/node"
        /\ log[Len(log)].by = "browse_knowledge"
        /\ PrintedWith("ERROR: Could not find parent path", args.target)
        /\ ret = False /\ exitCode = 1 /\ pc = "done"

\* C6 witness: a create whose browse request for the parent answered 404
ParentBrowseFailed ==
    /\ cmd = "create" /\ pc = "done"
    /\ \E i \in Requests : log[i].op = "GET /api/browse" /\ log[i].status = 404

\* C7 (as claimed): a create whose POST answered 409 with an existing
\* identifier returns a value carrying that identifier, and the POST is its
\* last request.
ConflictReturnsExistingId ==
    \A i \in Requests :
        (log[i].op = "POST /api/node" /\ log[i].status = 409 /\ Truthy(log[i].val))
            => ret = log[i].val /\ i = Len(log)

\* C7 (amended): a create whose POST answered 409 prints the existing
\* identifier of the answer and the advice to use update or delete,
\* returns False as for any failure (exit status 1), and the POST is the
\* last request of the run.
ConflictReportedNoRetry ==
    \A i \in Requests :
        (log[i].op = "POST /api/node" /\ log[i].status = 409)
            => /\ i = Len(log)
               /\ PrintedWith("Existing node ID", log[i].val.s)
               /\ Printed("Use the 'update' command to modify it instead, or delete it first")
               /\ ret = False /\ exitCode = 1 /\ pc = "done"

\* C7 witness: a create answered 409 with the identifier of the duplicate
ConflictAnswered ==
    /\ cmd = "create" /\ pc = "done"
    /\ \E i \in Requests :
          log[i].op = "POST /api/node" /\ log[i].status = 409 /\ log[i].val = Str(IdOf(1))

BrowseRequests == {i \in Requests : log[i].op = "GET /api/browse"}

\* C8: when the resolver has resolved a path other than "/" and "root",
\* the run holds exactly one browse request, for the whole path as given,
\* answered 200, and the identifier resolved is the one of the current_node
\* of that answer; browse_knowledge asked for one token.
ResolveIsOneBrowse ==
    (Truthy(resolved) /\ args.target \notin {SLASH, ROOT}) =>
        /\ Cardinality(BrowseRequests) = 1
        /\ \A i \in BrowseRequests :
              /\ log[i].arg = args.target
              /\ log[i].status = 200
              /\ log[i].val = resolved
        /\ Cardinality({i \in Requests : log[i].by = "browse_knowledge"}) = 2

\* C8 witness: a two-segment path resolved for an update
TwoSegmentPathResolved ==
    /\ cmd = "update" /\ args.target = <<"/", "I", "T", "/", "W">>
    /\ resolved = Str(IdOf(1)) /\ pc = "details"

\* C9: when the resolver was called with "/" or "root" it returned "root"
\* and browse_knowledge issued nothing: no token request, no browse request.
RootNeedsNoNetwork ==
    (resolved # Unset /\ args.target \in {SLASH, ROOT}) =>
        /\ resolved = Str(ROOT)
        /\ \A i \in Requests : log[i].by # "browse_knowledge"

\* C9 witness: a create under "root" that went on to its POST under root
CreatedUnderRootMarker ==
    /\ cmd = "create" /\ args.target = ROOT /\ resolved = Str(ROOT)
    /\ \E i \in Requests : log[i].op = "POST /api/node" /\ log[i].arg = ROOT

\* C10: a token request answered by anything but 200 (a transport
\* exception included) is the only request of the function that issued it:
\* that function issues no KnowledgeTree request and no second token
\* request; the run is over and its operation returned nothing truthy.
TokenFailureShortCircuits ==
    \A i \in Requests :
        (log[i].op = "POST /service-token" /\ log[i].status # 200)
            => /\ \A j \in Requests : j # i => log[j].by # log[i].by
               /\ ~Truthy(log[i].val)
               /\ pc = "done" /\ ~Truthy(ret)

\* C10 witness: an approved delete whose delete_node got no token
DeleteTokenRefused ==
    /\ cmd = "delete" /\ approved = True /\ pc = "done"
    /\ \E i \in Requests :
          /\ log[i].op = "POST /service-token" /\ log[i].by = "delete_node"
          /\ log[i].status = 500

\* the details fetch of the run failed: get_node_details got no token, its
\* GET failed, or it answered nothing (main's `if not node`)
DetailsFailed ==
    \/ node # Unset /\ ~Truthy(node)
    \/ \E i \in Requests : log[i].by = "get_node_details" /\ log[i].status # 200

\* C11: in update and delete the approval gate is invoked only after a
\* GET /api/node/{id} answered 200, and every PUT and DELETE comes after the
\* invocation of the gate; when the details fetch failed the run is over
\* with exit status 1, the gate was never invoked and no PUT or DELETE was
\* issued.
DetailsThenGateThenMutation ==
    cmd \in {"update", "delete"} =>
        /\ \A j \in Approvals :
              \E i \in Requests :
                  /\ i < j
                  /\ log[i].op = "GET /api/node/{id}" /\ log[i].status = 200
        /\ \A m \in Mutations : \E j \in Approvals : j < m
        /\ DetailsFailed =>
              /\ Approvals = {} /\ Mutations = {}
              /\ pc = "done" /\ exitCode = 1

\* C11 witness: an update whose details fetch answered 404
UpdateDetailsNotFound ==
    /\ cmd = "update" /\ pc = "done"
    /\ \E i \in Requests : log[i].op = "GET /api/node/{id}" /\ log[i].status = 404

=============================================================================
